---------------------------- MODULE Spec2Model ----------------------------
(***************************************************************************)
(* Model of orbitals.py: the density pipeline compute_density (with its    *)
(* helpers radial_wavefunction and angular_wavefunction) and the Streamlit *)
(* script that calls it.                                                   *)
(*                                                                         *)
(* Floating-point values are modelled by their class:                      *)
(*   "zero"  exactly 0.0                                                   *)
(*   "fin"   a finite, non-zero value                                      *)
(*   "inf"   +-infinity                                                    *)
(*   "nan"   not-a-number                                                  *)
(* Grid coordinates are exact: an axis sample is kept as its numerator     *)
(* over the common denominator Den(grid_points) = grid_points - 1.         *)
(***************************************************************************)
EXTENDS Integers, Sequences, FiniteSets

\* ------------------------------------------------------------------ bounds
\* compute_density inputs explored by Spec
MaxN == 3
MaxL == 3
MaxM == 4
MaxExtent == 2
MaxResolution == 3

\* largest k whose factorial is finite in float64 (170! ~ 7.3e306, 171! overflows)
MaxFiniteFactorial == 170

\* a principal number whose factorials n-l-1 and n+l both overflow for l = 0
BigN == MaxFiniteFactorial + 2

\* invalid values (n < 1, l < 0, extent <= 0, resolution < 2) are included
NInputs == (-1 .. MaxN) \cup {BigN}
LInputs == -1 .. MaxL
MInputs == -MaxM .. MaxM
ExtentInputs == -1 .. MaxExtent
ResolutionInputs == -1 .. MaxResolution

\* ----------------------------------------------------------- float classes
FMul(a, b) ==
    IF a = "nan" \/ b = "nan" THEN "nan"
    ELSE IF (a = "zero" /\ b = "inf") \/ (a = "inf" /\ b = "zero") THEN "nan"
    ELSE IF a = "zero" \/ b = "zero" THEN "zero"
    ELSE IF a = "inf" \/ b = "inf" THEN "inf"
    ELSE "fin"

\* numpy float64 division: x/0 is inf (0/0 is nan) with a RuntimeWarning, never a raise
FDiv(a, b) ==
    IF a = "nan" \/ b = "nan" THEN "nan"
    ELSE IF (a = "zero" /\ b = "zero") \/ (a = "inf" /\ b = "inf") THEN "nan"
    ELSE IF b = "zero" THEN "inf"
    ELSE IF b = "inf" \/ a = "zero" THEN "zero"
    ELSE IF a = "inf" THEN "inf"
    ELSE "fin"

\* np.sqrt of a non-negative argument (the argument of the norm's square root
\* has the sign of n^3 * n, so it is never negative for n # 0)
FSqrt(a) ==
    CASE a = "zero" -> "zero"
      [] a = "fin" -> "fin"
      [] a = "inf" -> "inf"
      [] OTHER -> "nan"

\* np.abs(psi)**2

FAbsSq(a) == FMul(a, a)

\* scipy.special.factorial(k) (exact=False): 0 for k < 0, gamma(k+1) otherwise
factorial(k) ==
    IF k < 0 THEN "zero"
    ELSE IF k <= MaxFiniteFactorial THEN "fin"
    ELSE "inf"

\* ------------------------------------------------------------------- state
VARIABLES
    pc,            \* position in compute_density
    n, l, m,       \* quantum numbers passed to compute_density
    grid_range,    \* extent argument
    grid_points,   \* resolution argument
    x, y, z,       \* axis samples (numerators over Den(grid_points))
    X, Y, Z,       \* meshgrid arrays
    r,             \* radius array of compute_density, kept as r^2 (numerator)
    theta, phi,    \* spherical angles (classes)
    r_radial,      \* the local r of radial_wavefunction after np.maximum
    R,             \* radial wavefunction array
    Y_ang,         \* angular wavefunction array
    density,       \* probability density array
    raised,        \* exception that left compute_density, "none" if none
    trace,         \* library calls made so far, in order
    factorials,    \* arguments factorial() was evaluated on as separate values
    w_n, w_l, w_m, \* Streamlit selectbox states
    w_points,      \* Streamlit slider states
    w_range,
    ui_pc,         \* position of the Streamlit script
    m_default,     \* result of m_options.index(0), -1 when it raises
    call           \* arguments of the last compute_density call of the script

coreVars == <<pc, n, l, m, grid_range, grid_points, x, y, z, X, Y, Z, r, theta,
              phi, r_radial, R, Y_ang, density, raised, trace, factorials>>
uiVars == <<w_n, w_l, w_m, w_points, w_range, ui_pc, m_default, call>>
vars == <<coreVars, uiVars>>

\* an array not yet assigned
None == << >>

\* ----------------------------------------------------------- grid helpers
Den(N) == IF N > 1 THEN N - 1 ELSE 1

Indices(N) == 0 .. (N - 1)

Points(N) == Indices(N) \X Indices(N) \X Indices(N)

\* np.linspace(-grid_range, grid_range, grid_points): start + i*step with
\* step = (stop - start)/(grid_points - 1); sample i as numerator over Den
linspace(start, stop, num) ==
    [i \in Indices(num) |-> start * Den(num) + i * (stop - start)]

\* meshgrid's default indexing='xy', which swaps the first two axes
meshgridX_xy(ax, N) == [p \in Points(N) |-> ax[p[2]]]

\* np.meshgrid(x, y, z, indexing='ij'), one output per axis
meshgridX(ax, N) == [p \in Points(N) |-> ax[p[1]]]
meshgridY(ay, N) == [p \in Points(N) |-> ay[p[2]]]
meshgridZ(az, N) == [p \in Points(N) |-> az[p[3]]]

\* np.arccos(np.clip(Z / r, -1, 1)): Z/r is 0/0 = nan where r = 0
arccosClipDiv(zv, rsq) ==
    IF rsq = 0 THEN "nan"
    ELSE IF zv * zv = rsq THEN (IF zv > 0 THEN "0" ELSE "pi")
    ELSE IF zv = 0 THEN "pi/2"
    ELSE IF zv > 0 THEN "(0,pi/2)" ELSE "(pi/2,pi)"

\* np.arctan2(Y, X): defined everywhere, arctan2(0, 0) = 0
arctan2(yv, xv) ==
    IF yv = 0 THEN (IF xv >= 0 THEN "0" ELSE "pi")
    ELSE IF xv = 0 THEN (IF yv > 0 THEN "pi/2" ELSE "-pi/2")
    ELSE IF xv > 0 THEN (IF yv > 0 THEN "(0,pi/2)" ELSE "(-pi/2,0)")
    ELSE (IF yv > 0 THEN "(pi/2,pi)" ELSE "(-pi,-pi/2)")


\* --------------------------------------------------- radial_wavefunction
\* r = np.maximum(r, 1e-10): eps marks an entry replaced by the floor 1e-10
maximum_floor(rsq) == [eps |-> (rsq = 0), rsq |-> rsq]

\* norm = np.sqrt((2/(n*a0))**3 * factorial(n-l-1) / (2*n*factorial(n+l))), n # 0
radial_norm(nn, ll) ==
    FSqrt(FDiv(FMul("fin", factorial(nn - ll - 1)),
               FMul("fin", factorial(nn + ll))))

\* genlaguerre(n-l-1, 2*l+1) raises ValueError for alpha <= -1 or degree < 0
genlaguerre_raises(degree, alpha) == alpha <= -1 \/ degree < 0

\* norm * np.exp(-rho/2) * (rho**l) * L at one radius; rho = 2r/n is finite and
\* positive after the floor, so the three factors after norm are finite
radial_value(nn, ll, rf) == FMul(radial_norm(nn, ll), "fin")

\* -------------------------------------------------- angular_wavefunction
\* values sph_harm may return where its polar angle is nan
AngularAtNaN == {"nan", "fin"}

\* sph_harm(m, l, phi, theta) at one point with a defined polar angle: nan for
\* |m| > l, exactly 0 on the poles for m # 0, a finite value elsewhere
sph_harm(mm, ll, ph, th) ==
    IF ll < 0 \/ mm > ll \/ -mm > ll THEN "nan"
    ELSE IF th \in {"0", "pi"} /\ mm # 0 THEN "zero"
    ELSE "fin"

\* ------------------------------------------------------- compute_density
\* a mask that leaves the plane X = 0 visible
mask_strict(Xv) == Xv > 0

\* mask = X >= 0
mask(Xv) == Xv >= 0

Terminal == pc \in {"returned", "raised"}

Raise(exc) ==
    /\ raised' = exc
    /\ pc' = "raised"

\* lines 40-42: three np.linspace calls; a negative sample count raises
Linspace ==
    /\ pc = "start"
    /\ IF grid_points < 0
       THEN /\ Raise("ValueError")
            /\ trace' = Append(trace, "linspace")
            /\ UNCHANGED <<x, y, z>>
       ELSE /\ x' = linspace(-grid_range, grid_range, grid_points)
            /\ y' = linspace(-grid_range, grid_range, grid_points)
            /\ z' = linspace(-grid_range, grid_range, grid_points)
            /\ trace' = trace \o <<"linspace", "linspace", "linspace">>
            /\ pc' = "meshgrid"
            /\ UNCHANGED raised
    /\ UNCHANGED <<n, l, m, grid_range, grid_points, X, Y, Z, r, theta, phi,
                   r_radial, R, Y_ang, density, factorials>>
    /\ UNCHANGED uiVars

\* line 43
Meshgrid ==
    /\ pc = "meshgrid"
    /\ X' = meshgridX(x, grid_points)
    /\ Y' = meshgridY(y, grid_points)
    /\ Z' = meshgridZ(z, grid_points)
    /\ trace' = Append(trace, "meshgrid")
    /\ pc' = "spherical"
    /\ UNCHANGED <<n, l, m, grid_range, grid_points, x, y, z, r, theta, phi,
                   r_radial, R, Y_ang, density, raised, factorials>>
    /\ UNCHANGED uiVars

\* lines 44-46: r is not floored here; Z / r divides by r as computed
Spherical ==
    /\ pc = "spherical"
    /\ r' = [p \in DOMAIN X |-> X[p] * X[p] + Y[p] * Y[p] + Z[p] * Z[p]]
    /\ theta' = [p \in DOMAIN X |-> arccosClipDiv(Z[p], r'[p])]
    /\ phi' = [p \in DOMAIN X |-> arctan2(Y[p], X[p])]
    /\ pc' = "radial"
    /\ UNCHANGED <<n, l, m, grid_range, grid_points, x, y, z, X, Y, Z,
                   r_radial, R, Y_ang, density, raised, trace, factorials>>
    /\ UNCHANGED uiVars

\* line 48, radial_wavefunction lines 15-20
Radial ==
    /\ pc = "radial"
    /\ r_radial' = [p \in DOMAIN r |-> maximum_floor(r[p])]
    /\ IF n = 0
       THEN \* 2/(n*a0) is a Python float division: ZeroDivisionError on line 18
            /\ Raise("ZeroDivisionError")
            /\ UNCHANGED <<R, trace, factorials>>
       ELSE /\ factorials' = <<n - l - 1, n + l>>
            /\ trace' = trace \o <<"factorial", "factorial", "genlaguerre">>
            /\ IF genlaguerre_raises(n - l - 1, 2 * l + 1)
               THEN /\ Raise("ValueError")
                    /\ UNCHANGED R
               ELSE /\ R' = [p \in DOMAIN r |-> radial_value(n, l, r_radial'[p])]
                    /\ pc' = "angular"
                    /\ UNCHANGED raised
    /\ UNCHANGED <<n, l, m, grid_range, grid_points, x, y, z, X, Y, Z, r,
                   theta, phi, Y_ang, density>>
    /\ UNCHANGED uiVars

\* line 49, angular_wavefunction line 29
Angular ==
    /\ pc = "angular"
    /\ \E atNaN \in AngularAtNaN :
         Y_ang' = [p \in DOMAIN theta |->
                     IF theta[p] = "nan" /\ sph_harm(m, l, phi[p], "0") # "nan"
                     THEN atNaN
                     ELSE sph_harm(m, l, phi[p], theta[p])]
    /\ trace' = Append(trace, "sph_harm")
    /\ pc' = "density"
    /\ UNCHANGED <<n, l, m, grid_range, grid_points, x, y, z, X, Y, Z, r,
                   theta, phi, r_radial, R, density, raised, factorials>>
    /\ UNCHANGED uiVars

\* lines 50-51: psi = R * Y_ang; density = np.abs(psi)**2
Density ==
    /\ pc = "density"
    /\ density' = [p \in DOMAIN R |-> FAbsSq(FMul(R[p], Y_ang[p]))]
    /\ pc' = "mask"
    /\ UNCHANGED <<n, l, m, grid_range, grid_points, x, y, z, X, Y, Z, r,
                   theta, phi, r_radial, R, Y_ang, raised, trace, factorials>>
    /\ UNCHANGED uiVars

\* lines 54-55: density[mask] = 0
Mask ==
    /\ pc = "mask"
    /\ density' = [p \in DOMAIN density |->
                     IF mask(X[p]) THEN "zero" ELSE density[p]]
    /\ pc' = "return"
    /\ UNCHANGED <<n, l, m, grid_range, grid_points, x, y, z, X, Y, Z, r,
                   theta, phi, r_radial, R, Y_ang, raised, trace, factorials>>
    /\ UNCHANGED uiVars

\* line 57
Return ==
    /\ pc = "return"
    /\ pc' = "returned"
    /\ UNCHANGED <<n, l, m, grid_range, grid_points, x, y, z, X, Y, Z, r,
                   theta, phi, r_radial, R, Y_ang, density, raised, trace,
                   factorials>>
    /\ UNCHANGED uiVars

\* what a complete run of compute_density does with its arguments: the exception
\* that leaves it, or "returned"
compute_outcome(nn, ll, mm, rng, pts) ==
    IF pts < 0 THEN "ValueError"
    ELSE IF nn = 0 THEN "ZeroDivisionError"
    ELSE IF genlaguerre_raises(nn - ll - 1, 2 * ll + 1) THEN "ValueError"
    ELSE "returned"

InitCore ==
    /\ pc = "start"
    /\ n \in NInputs
    /\ l \in LInputs
    /\ m \in MInputs
    /\ grid_range \in ExtentInputs
    /\ grid_points \in ResolutionInputs
    /\ x = None /\ y = None /\ z = None
    /\ X = None /\ Y = None /\ Z = None
    /\ r = None /\ theta = None /\ phi = None
    /\ r_radial = None /\ R = None /\ Y_ang = None /\ density = None
    /\ raised = "none"
    /\ trace = << >>
    /\ factorials = << >>

\* --------------------------------------------------------- Streamlit script
\* line 124: options=list(range(1, 30))
NOptionsStop == 30
\* line 130: min_value=30, max_value=100, value=100
MinGridPoints == 30
MaxGridPoints == 100
DefaultGridPoints == 100
\* line 131: min_value=10, max_value=5000, value=20
MinGridRange == 10
MaxGridRange == 5000
DefaultGridRange == 20

\* the user picks among the first and the last PickEdge options of a selectbox
PickEdge == 3

\* slider positions the user moves to
GridPointsChoices == {MinGridPoints, MinGridPoints + 1, MaxGridPoints}
GridRangeChoices == {MinGridRange, DefaultGridRange, MaxGridRange}

\* list(range(a, b))
PyRange(a, b) == [i \in 1 .. (b - a) |-> a + i - 1]

\* list.index(v), 0-based; -1 stands for the ValueError of a missing value
PyIndex(lst, v) ==
    IF \E i \in DOMAIN lst : lst[i] = v
    THEN (CHOOSE i \in DOMAIN lst : lst[i] = v /\ \A j \in 1 .. (i - 1) : lst[j] # v) - 1
    ELSE -1

Picks(lst) ==
    {lst[i] : i \in {j \in DOMAIN lst : j <= PickEdge \/ j > Len(lst) - PickEdge}}

n_options == PyRange(1, NOptionsStop)

\* l_options with the stop of its range one too far
l_options_off_by_one(nn) == PyRange(0, nn + 1)

\* line 125
l_options(nn) == PyRange(0, nn)

\* line 127
m_options(ll) == IF ll > 0 THEN PyRange(-ll, ll + 1) ELSE <<0>>

\* st.selectbox(label, options, index): the widget keeps the user's choice while
\* its options are the ones it was created with; with other options it is a new
\* widget showing options[index]
selectbox(widget, options, index) ==
    IF widget.options = options THEN widget.value ELSE options[index + 1]

\* st.slider(min_value, max_value, value): the user's position, else the default
slider(widget, default) == IF widget.set THEN widget.value ELSE default

\* One run of the script (lines 123-137) on the widget states wn, wl, wm, wp, wr.
\* The iso_percent slider (line 132) does not reach compute_density and is left out.
Script(wn, wl, wm, wp, wr) ==
    LET n_ == selectbox(wn, n_options, 0)
        lo == l_options(n_)
        l_ == selectbox(wl, lo, 0)
        mo == m_options(l_)
        ix == PyIndex(mo, 0)
    IN  /\ w_n' = [options |-> n_options, value |-> n_]
        /\ w_l' = [options |-> lo, value |-> l_]
        /\ m_default' = ix
        /\ w_points' = wp
        /\ w_range' = wr
        /\ IF ix < 0
           THEN \* m_options.index(0) raised: the run stops on line 128
                /\ ui_pc' = "error"
                /\ UNCHANGED <<w_m, call>>
           ELSE LET m_ == selectbox(wm, mo, ix)
                    gp == slider(wp, DefaultGridPoints)
                    gr == slider(wr, DefaultGridRange)
                IN  /\ w_m' = [options |-> mo, value |-> m_]
                    /\ call' = [n |-> n_, l |-> l_, m |-> m_,
                                grid_range |-> gr, grid_points |-> gp,
                                outcome |-> compute_outcome(n_, l_, m_, gr, gp)]
                    /\ ui_pc' = "idle"

NoWidget == [options |-> << >>, value |-> 0]
NoSlider == [set |-> FALSE, value |-> 0]
NoCall == [n |-> 0, l |-> 0, m |-> 0, grid_range |-> 0, grid_points |-> 0,
           outcome |-> "none"]

InitUI ==
    /\ ui_pc = "start"
    /\ w_n = NoWidget /\ w_l = NoWidget /\ w_m = NoWidget
    /\ w_points = NoSlider /\ w_range = NoSlider
    /\ m_default = 0
    /\ call = NoCall

\* the first run of the script, every widget at its default
FirstRun ==
    /\ ui_pc = "start"
    /\ Script(w_n, w_l, w_m, w_points, w_range)
    /\ UNCHANGED coreVars

\* the user picks an option of a selectbox or moves a slider; Streamlit re-runs
\* the script with the new widget state
SelectN ==
    /\ ui_pc = "idle"
    /\ \E v \in Picks(w_n.options) :
         Script([w_n EXCEPT !.value = v], w_l, w_m, w_points, w_range)
    /\ UNCHANGED coreVars

SelectL ==
    /\ ui_pc = "idle"
    /\ \E v \in Picks(w_l.options) :
         Script(w_n, [w_l EXCEPT !.value = v], w_m, w_points, w_range)
    /\ UNCHANGED coreVars

SelectM ==
    /\ ui_pc = "idle"
    /\ \E v \in Picks(w_m.options) :
         Script(w_n, w_l, [w_m EXCEPT !.value = v], w_points, w_range)
    /\ UNCHANGED coreVars

SlideGridPoints ==
    /\ ui_pc = "idle"
    /\ \E v \in GridPointsChoices :
         Script(w_n, w_l, w_m, [set |-> TRUE, value |-> v], w_range)
    /\ UNCHANGED coreVars

SlideGridRange ==
    /\ ui_pc = "idle"
    /\ \E v \in GridRangeChoices :
         Script(w_n, w_l, w_m, w_points, [set |-> TRUE, value |-> v])
    /\ UNCHANGED coreVars

\* ----------------------------------------------------------- specifications
Init == InitCore /\ InitUI

Next ==
    \/ Linspace
    \/ Meshgrid
    \/ Spherical
    \/ Radial
    \/ Angular
    \/ Density
    \/ Mask
    \/ Return

\* compute_density on every input of the bounded sets
Spec == Init /\ [][Next]_vars

InitScript ==
    /\ InitUI
    /\ pc = "start"
    /\ n = 1 /\ l = 0 /\ m = 0
    /\ grid_range = DefaultGridRange
    /\ grid_points = DefaultGridPoints
    /\ x = None /\ y = None /\ z = None
    /\ X = None /\ Y = None /\ Z = None
    /\ r = None /\ theta = None /\ phi = None
    /\ r_radial = None /\ R = None /\ Y_ang = None /\ density = None
    /\ raised = "none"
    /\ trace = << >>
    /\ factorials = << >>

NextScript ==
    \/ FirstRun
    \/ SelectN
    \/ SelectL
    \/ SelectM
    \/ SlideGridPoints
    \/ SlideGridRange

\* the Streamlit script under any sequence of control changes
SpecScript == InitScript /\ [][NextScript]_vars

\* ------------------------------------------------------------------ claims
\* QuantumState invariants: n >= 1, 0 <= l <= n-1, -l <= m <= l
ValidState(nn, ll, mm) ==
    /\ nn >= 1
    /\ 0 <= ll /\ ll <= nn - 1
    /\ -ll <= mm /\ mm <= ll

\* GridSpec invariants: extent > 0, resolution >= 2
ValidGrid(rng, pts) == rng > 0 /\ pts >= 2

ValidInputs == ValidState(n, l, m) /\ ValidGrid(grid_range, grid_points)

\* the density of a point before the mask of lines 54-55
PreMask(p) == FAbsSq(FMul(R[p], Y_ang[p]))

\* C1: whenever compute_density has ended on a triple (n, l, m) that violates
\* n >= 1, 0 <= l <= n-1 or -l <= m <= l (the grid being valid), it has ended
\* by raising InvalidQuantumState and has returned no field.
C1_InvalidStateRaises ==
    (Terminal /\ ~ValidState(n, l, m) /\ ValidGrid(grid_range, grid_points))
        => (pc = "raised" /\ raised = "InvalidQuantumState")

\* C2: validation is the first step of compute_density: the first library call
\* of a run is the validation, and a run on invalid inputs makes no allocation
\* (linspace, meshgrid) and no special-function call (factorial, genlaguerre,
\* sph_harm) at all.
C2_ValidationFirst ==
    trace # << >> => (trace[1] = "validate" /\ ValidInputs)

\* C3: whenever compute_density has ended on a grid with extent <= 0 or
\* resolution < 2 (the quantum state being valid), it has ended by raising
\* InvalidGridSpec and has returned no grid and no field.
C3_InvalidGridRaises ==
    (Terminal /\ ValidState(n, l, m) /\ ~ValidGrid(grid_range, grid_points))
        => (pc = "raised" /\ raised = "InvalidGridSpec")

\* C4 (mask law): in the density returned for a valid state and grid, every
\* entry whose X coordinate is >= 0, X = 0 included, is exactly zero.
C4_MaskLaw ==
    (pc = "returned" /\ ValidInputs)
        => \A p \in DOMAIN density : X[p] >= 0 => density[p] = "zero"

\* a returned field with a point on the plane X = 0 whose density was not zero
\* before the mask, and a point with X > 0
C4_Witness ==
    /\ pc = "returned" /\ ValidInputs
    /\ \E p \in DOMAIN density : X[p] = 0 /\ PreMask(p) # "zero"
    /\ \E q \in DOMAIN density : X[q] > 0 /\ PreMask(q) # "zero"

\* C5: every entry of the density returned for a valid state and a valid grid
\* is a defined real value >= 0 (neither nan nor infinite).
C5_DensityDefined ==
    (pc = "returned" /\ ValidInputs)
        => \A p \in DOMAIN density : density[p] \in {"zero", "fin"}

\* C6: for a valid state and a valid grid compute_density does not raise and
\* does not stop before its return, and what it returns are X, Y, Z and density over the same grid_points^3 indices,
\* with X[i,j,k], Y[i,j,k], Z[i,j,k] the i-th, j-th and k-th of the same
\* grid_points axis samples, which run from -grid_range to +grid_range in equal
\* steps.
C6_GridShape ==
    ValidInputs =>
        /\ pc # "raised"
        /\ pc # "returned" => ENABLED Next
        /\ pc = "returned" =>
             /\ DOMAIN X = Points(grid_points)
             /\ DOMAIN Y = Points(grid_points)
             /\ DOMAIN Z = Points(grid_points)
             /\ DOMAIN density = Points(grid_points)
             /\ x = y /\ y = z
             /\ DOMAIN x = 0 .. (grid_points - 1)
             /\ x[0] = -grid_range * Den(grid_points)
             /\ x[grid_points - 1] = grid_range * Den(grid_points)
             /\ \A i \in 1 .. (grid_points - 1) : x[i] - x[i - 1] = x[1] - x[0]
             /\ \A p \in Points(grid_points) :
                  X[p] = x[p[1]] /\ Y[p] = y[p[2]] /\ Z[p] = z[p[3]]

\* a returned field on a grid of at least 3 points per axis
C6_Witness ==
    /\ pc = "returned" /\ ValidInputs
    /\ grid_points >= 3
    /\ Cardinality(DOMAIN density) = grid_points * grid_points * grid_points

\* C8: on a valid grid the radius is floored before it divides Z: once the
\* spherical coordinates are computed no grid point has a zero divisor r, and
\* the r that radial_wavefunction receives is that same floored value (its own
\* floor changes no entry).
C8_RadiusFlooredBeforeDivision ==
    ValidInputs =>
        /\ pc \in {"radial", "angular", "density", "mask", "return", "returned"}
             => \A p \in DOMAIN X : r[p] # 0
        /\ pc \in {"angular", "density", "mask", "return", "returned"}
             => \A p \in DOMAIN X : ~r_radial[p].eps

\* C9: for a valid state with n up to 29, radial_wavefunction does not evaluate
\* (n-l-1)! and (n+l)! as two separate values to be divided.
C9_NoSeparateFactorials ==
    (ValidState(n, l, m) /\ n < NOptionsStop) => Len(factorials) < 2

\* C10: every compute_density call of the Streamlit script has
\* 1 <= n <= 29, 0 <= l <= n-1, -l <= m <= l, 30 <= grid_points <= 100 and
\* 10 <= grid_range <= 5000, and m_options.index(0) always finds 0.
C10_CallerPassesValidArguments ==
    /\ ui_pc # "error"
    /\ m_default >= 0
    /\ ui_pc = "idle" =>
         /\ 1 <= call.n /\ call.n <= NOptionsStop - 1
         /\ ValidState(call.n, call.l, call.m)
         /\ MinGridPoints <= call.grid_points
         /\ call.grid_points <= MaxGridPoints
         /\ MinGridRange <= call.grid_range
         /\ call.grid_range <= MaxGridRange
         /\ call.outcome = "returned"

\* a call on the last n, the last l and the first m, after both sliders moved
C10_Witness ==
    /\ ui_pc = "idle"
    /\ call.n = NOptionsStop - 1
    /\ call.l = call.n - 1
    /\ call.m = -call.l
    /\ call.grid_points = MinGridPoints
    /\ call.grid_range = MaxGridRange

=============================================================================
